---- MODULE Spec2Model ----
(***************************************************************************)
(* A model of the error navigation and listing commands of SublimeLinter3  *)
(* (commands.py): error_command, GotoErrorCommand.goto_error,              *)
(* select_lint_region, find_mark_within and SublimelinterShowAllErrors.    *)
(*                                                                         *)
(* Host primitives the code calls (sublime.Region, sublime.Selection,      *)
(* view.get_regions, view.text_point) are modelled by their documented     *)
(* behaviour:                                                              *)
(*   - Region.begin/end/empty; Region.contains is inclusive at both ends;  *)
(*   - Region.intersects is true for equal regions and for regions that    *)
(*     share an interior position, false for regions that only touch;      *)
(*   - a Selection is kept sorted and Selection.add merges the added       *)
(*     region with every region of the selection it intersects;            *)
(*   - sublime.Selection(view.id()) IS the selection of the view.          *)
(* A region is modelled by the pair <<begin, end>>, the only two values    *)
(* the commands read from it.                                              *)
(***************************************************************************)
EXTENDS Integers, Sequences, FiniteSets, TLC

\* ------------------------------------------------------------------ bounds
MaxPos == 2      \* buffer offsets are 0..MaxPos
MaxMarks == 2    \* marks in the view, both severities together
MaxGen == 1      \* lint passes after the first
MaxLine == 1     \* findings are on lines 0..MaxLine
MaxCol == 1      \* findings are on columns 0..MaxCol
LineLen == 2     \* characters per line of the modelled buffer

\* consecutive navigation calls that are tracked: one more than the marks
MaxTrail == MaxMarks + 1
MaxMsg == 1      \* messages are 0..MaxMsg, in their sort order
MaxIndent == 2   \* leading spaces of a previewed line
MaxBody == 45    \* characters after the indentation of a previewed line
MaxOver == 2     \* how far past the end of the line a finding's column lies
MaxDiagnostics == 1 \* findings of one lint pass, where lint passes are modelled
MaxLen == 1      \* length of the mark a lint pass draws for a finding
MaxSettings == 2 \* items of the list a setting is chosen from

\* ------------------------------------------------------- sublime.Region
Region(a, b) == <<a, b>>
begin(r) == r[1]
end(r) == r[2]
empty(r) == begin(r) = end(r)
\* Region.contains(point)
containsPoint(r, p) == p >= begin(r) /\ p <= end(r)
\* a containment test that looks at the start of the region only
contains_StartOnly(r, x) == containsPoint(r, begin(x))

\* Region.contains(region)
contains(r, x) == containsPoint(r, begin(x)) /\ containsPoint(r, end(x))
intersects(l, r) ==
    \/ (begin(l) = begin(r) /\ end(l) = end(r))
    \/ (begin(r) > begin(l) /\ begin(r) < end(l))
    \/ (end(r) > begin(l) /\ end(r) < end(l))
    \/ (begin(l) > begin(r) /\ begin(l) < end(r))
    \/ (end(l) > begin(r) /\ end(l) < end(r))
cover(l, r) ==
    Region(IF begin(l) < begin(r) THEN begin(l) ELSE begin(r),
           IF end(l) > end(r) THEN end(l) ELSE end(r))

None == <<-1, -1>>

Regions == {r \in (0..MaxPos) \X (0..MaxPos) : r[1] <= r[2]}

\* ---------------------------------------------------- sublime.Selection
Before(l, r) == begin(l) < begin(r) \/ (begin(l) = begin(r) /\ end(l) < end(r))

RECURSIVE SortedInsert(_, _)
SortedInsert(s, r) ==
    IF s = <<>> THEN <<r>>
    ELSE IF Before(r, Head(s)) THEN <<r>> \o s
    ELSE <<Head(s)>> \o SortedInsert(Tail(s), r)

RemoveAt(s, i) == SubSeq(s, 1, i - 1) \o SubSeq(s, i + 1, Len(s))

\* Selection.add(region): merge with the intersecting regions, keep sorted
RECURSIVE add(_, _)
add(s, r) ==
    IF \E i \in 1..Len(s) : intersects(s[i], r)
    THEN LET i == CHOOSE j \in 1..Len(s) : intersects(s[j], r)
         IN  add(RemoveAt(s, i), cover(s[i], r))
    ELSE SortedInsert(s, r)

\* Selection.add_all(regions)
RECURSIVE add_all(_, _)
add_all(s, rs) ==
    IF rs = <<>> THEN s ELSE add_all(add(s, Head(rs)), Tail(rs))

\* ------------------------------------------------------------ variables
VARIABLES
    sel,        \* view.sel(): the selection of the view, a sorted sequence of regions
    marksW,     \* view.get_regions(MARK_KEY_FORMAT.format(WARNING))
    marksE,     \* view.get_regions(MARK_KEY_FORMAT.format(ERROR))
    errors,     \* persist.errors[vid]: sequence of findings <<line, column, message>>
    wrap_find,  \* persist.settings.get('wrap_find', True)
    gen,        \* generation of the findings and marks now published
    points,     \* self.points of SublimelinterShowAllErrors
    pointsGen,  \* generation of the findings self.points was computed from
    panel,      \* "open" while the quick panel waits for its callback
    centered,   \* region of the last view.show_at_center, None if none yet
    text,       \* the buffer: its lines, each with its line terminator
    options,    \* the entries last given to show_quick_panel
    settings,   \* ChooseSettingCommand: self.settings, the list get_settings returns
    setting,    \* ChooseSettingCommand: persist.settings.get(self.setting)
    chooser,    \* "open" while the quick panel of choose waits for its callback
    last,       \* record of the last command: what it read and how it ended
    trail       \* selections made by consecutive successful goto_error calls

vars == <<sel, marksW, marksE, errors, wrap_find, gen, points, pointsGen,
          panel, centered, text, options, settings, setting, chooser, last, trail>>

\* what the navigation and listing commands leave alone, and what the
\* setting commands leave alone
chooserVars == <<settings, setting, chooser>>
viewVars == <<sel, marksW, marksE, errors, wrap_find, gen, points, pointsGen,
              panel, centered, text, options, trail>>

\* ------------------------------------------------- GotoErrorCommand
\* marks.sort(key=sublime.Region.begin): a stable sort by begin
RECURSIVE StableInsert(_, _)
StableInsert(s, r) ==
    IF s = <<>> THEN <<r>>
    ELSE IF begin(r) < begin(Head(s)) THEN <<r>> \o s
    ELSE <<Head(s)>> \o StableInsert(Tail(s), r)

RECURSIVE SortByBegin(_)
SortByBegin(s) ==
    IF s = <<>> THEN <<>>
    ELSE StableInsert(SortByBegin(SubSeq(s, 1, Len(s) - 1)), s[Len(s)])

\* find_mark_within without its marks.sort
SortedMarks_Unsorted(mW, mE) == mW \o mE

\* the marks list find_mark_within scans
SortedMarks(mW, mE) == SortByBegin(mW \o mE)

RECURSIVE FirstContaining(_, _)
FirstContaining(marks, region) ==
    IF marks = <<>> THEN None
    ELSE IF contains(Head(marks), region) THEN Head(marks)
    ELSE FirstContaining(Tail(marks), region)

\* a scan that does not stop at the first mark containing the region
find_mark_within_LastContaining(mW, mE, region) ==
    LET marks == SortedMarks(mW, mE)
        idx == {i \in 1..Len(marks) : contains(marks[i], region)}
    IN  IF idx = {} THEN None
        ELSE marks[CHOOSE i \in idx : \A j \in idx : j <= i]

find_mark_within(mW, mE, region) == FirstContaining(SortedMarks(mW, mE), region)

\* a select_lint_region that selects the region it is given
select_lint_region_NoLocate(mW, mE, region) == region

\* the region select_lint_region selects and centers
select_lint_region(mW, mE, region) ==
    LET marked_region == find_mark_within(mW, mE, region)
    IN  IF marked_region = None THEN Region(begin(region), begin(region))
        ELSE marked_region

\* the selection goto_error works on: a cursor at 0 is added to an empty one
EnsureCursor(s) == IF Len(s) = 0 THEN add(s, Region(0, 0)) ELSE s

empty_selection(s) == Len(s) = 1 /\ empty(s[1])

ReferencePoint(s, direction) ==
    IF direction = "next" THEN begin(s[1]) ELSE end(s[Len(s)])

\* regions: the marks of both severities added to a cleared Selection
MergedRegions(mW, mE) == add_all(add_all(<<>>, mW), mE)

\* the forward test taking every region at or after the point
NextMatches_AtOrAfter(point, es, region) == point <= begin(region)

NextMatches(point, es, region) ==
    \/ (point = begin(region) /\ es /\ ~empty(region))
    \/ (point < begin(region))

\* the backward test taking every region at or before the point
PrevMatches_AtOrBefore(point, es, region) == point >= end(region)

PrevMatches(point, es, region) ==
    \/ (point = end(region) /\ es /\ ~empty(region))
    \/ (point > end(region))

\* for region in regions: ... break            (index of the region, 0 if none)
RECURSIVE SearchNext(_, _, _, _)
SearchNext(regions, point, es, i) ==
    IF i > Len(regions) THEN 0
    ELSE IF NextMatches(point, es, regions[i]) THEN i
    ELSE SearchNext(regions, point, es, i + 1)

\* for region in reversed(regions): ... break
RECURSIVE SearchPrev(_, _, _, _)
SearchPrev(regions, point, es, i) ==
    IF i < 1 THEN 0
    ELSE IF PrevMatches(point, es, regions[i]) THEN i
    ELSE SearchPrev(regions, point, es, i - 1)

Search(regions, point, es, direction) ==
    IF direction = "next" THEN SearchNext(regions, point, es, 1)
    ELSE SearchPrev(regions, point, es, Len(regions))

\* the wrap condition without the test for the sole region
WrapCondition_NoSoleCheck(regions, point) ==
    IF Len(regions) = 0 THEN "IndexError" ELSE "yes"

\* len(regions) > 1 or not regions[0].contains(point); regions[0] raises
\* IndexError on an empty Selection
WrapCondition(regions, point) ==
    IF Len(regions) > 1 THEN "yes"
    ELSE IF Len(regions) = 0 THEN "IndexError"
    ELSE IF ~containsPoint(regions[1], point) THEN "yes" ELSE "no"

WrapTarget(regions, direction) ==
    IF direction = "next" THEN regions[1] ELSE regions[Len(regions)]

\* a restore that puts back the first saved range only
RestoreSelection_FirstOnly(saved_sel) == add_all(<<>>, <<saved_sel[1]>>)

\* sel.clear(); sel.add_all(saved_sel)
RestoreSelection(saved_sel) == add_all(<<>>, saved_sel)

\* goto_error as a function of what it reads: the selection it leaves, how it
\* ended and the values it computed on the way
goto_error(s, mW, mE, wf, direction) ==
    LET s1 == EnsureCursor(s)
        saved_sel == s1
        es == empty_selection(s1)
        point == ReferencePoint(s1, direction)
        regions == MergedRegions(mW, mE)
        found == Search(regions, point, es, direction)
        wc == IF found = 0 THEN WrapCondition(regions, point) ELSE "no"
        how == IF found # 0 THEN "match"
               ELSE IF wc = "IndexError" THEN "IndexError"
               ELSE IF wc = "yes" /\ wf THEN "wrap"
               ELSE "none"
        region_to_select ==
            IF how = "match" THEN regions[found]
            ELSE IF how = "wrap" THEN WrapTarget(regions, direction)
            ELSE None
        selected == select_lint_region(mW, mE, region_to_select)
    IN  [ sel |-> IF how = "IndexError" THEN regions
                  ELSE IF region_to_select # None THEN <<selected>>
                  ELSE RestoreSelection(saved_sel),
          outcome |-> IF how = "IndexError" THEN "IndexError"
                      ELSE IF region_to_select # None THEN "selected"
                      ELSE "NoMoreDiagnostics",
          how |-> how,
          point |-> point,
          es |-> es,
          regions |-> regions,
          chosen |-> region_to_select,
          mark |-> IF region_to_select # None
                   THEN find_mark_within(mW, mE, region_to_select) ELSE None,
          centered |-> IF region_to_select # None THEN selected ELSE None ]

\* --------------------------------------------- SublimelinterShowAllErrors
\* view.text_point(lineno, column)
text_point(lineno, column) == lineno * LineLen + column

\* a sort by line and column that does not look at the message
FindingBefore_NoMessage(f, g) ==
    \/ f[1] < g[1]
    \/ (f[1] = g[1] /\ f[2] < g[2])

\* sorted(errors.items()) with sorted(line_errors) inside: by line, then
\* by (column, message)
FindingBefore(f, g) ==
    \/ f[1] < g[1]
    \/ (f[1] = g[1] /\ f[2] < g[2])
    \/ (f[1] = g[1] /\ f[2] = g[2] /\ f[3] < g[3])

RECURSIVE InsertFinding(_, _)
InsertFinding(s, f) ==
    IF s = <<>> THEN <<f>>
    ELSE IF FindingBefore(f, Head(s)) THEN <<f>> \o s
    ELSE <<Head(s)>> \o InsertFinding(Tail(s), f)

RECURSIVE SortedFindings(_)
SortedFindings(es) ==
    IF es = <<>> THEN <<>>
    ELSE InsertFinding(SortedFindings(SubSeq(es, 1, Len(es) - 1)), es[Len(es)])

\* points computed from a column moved left on the indented lines
PanelPoints_Adjusted(es) ==
    LET fs == SortedFindings(es)
    IN  [i \in 1..Len(fs) |->
            text_point(fs[i][1], IF fs[i][1] > 0 /\ fs[i][2] > 0
                                 THEN fs[i][2] - 1 ELSE fs[i][2])]

\* self.points after run
PanelPoints(es) ==
    LET fs == SortedFindings(es)
    IN  [i \in 1..Len(fs) |-> text_point(fs[i][1], fs[i][2])]

\* characters are strings; the characters of a line other than its spaces
\* and its terminator are the decimal numerals of their index in the line,
\* so that every one of them tells where it came from
Whitespace == {" ", "\t", "\n", "\r"}
Arrow == "->"
Ellipsis == <<".", ".", ".">>
max_prefix_len == 40

\* s[k:] and s[:k] of Python, for k >= 0
From(s, k) == IF k >= Len(s) THEN <<>> ELSE SubSeq(s, k + 1, Len(s))
Upto(s, k) == IF k >= Len(s) THEN s ELSE SubSeq(s, 1, k)

\* str.rstrip('\n\r')
RECURSIVE rstrip(_)
rstrip(s) ==
    IF s # <<>> /\ s[Len(s)] \in {"\n", "\r"}
    THEN rstrip(SubSeq(s, 1, Len(s) - 1))
    ELSE s

\* str.lstrip()
RECURSIVE lstrip(_)
lstrip(s) ==
    IF s # <<>> /\ Head(s) \in Whitespace THEN lstrip(Tail(s)) ELSE s

\* view.substr(view.full_line(view.text_point(lineno, 0)))
full_line(t, lineno) == t[lineno + 1]

Max(a, b) == IF a > b THEN a ELSE b

\* the line as the panel shows it and the number of characters lstrip took
StrippedLine(t, lineno) == lstrip(rstrip(full_line(t, lineno)))
StripDiff(t, lineno) == Len(rstrip(full_line(t, lineno))) - Len(StrippedLine(t, lineno))

\* a column that is not moved left by the characters lstrip took
AdjustedColumn_NoDiff(t, lineno, column) == Max(column, 0)

\* column = max(column - diff, 0)
AdjustedColumn(t, lineno, column) == Max(column - StripDiff(t, lineno), 0)

\* a cut that starts one character further into the line
VisibleLine_CutOneMore(t, lineno, column) ==
    LET line == StrippedLine(t, lineno)
        col == AdjustedColumn(t, lineno, column)
    IN  IF col > max_prefix_len
        THEN Ellipsis \o From(line, col - max_prefix_len + 1)
        ELSE line

\* visible_line and the column the arrow is put at
VisibleLine(t, lineno, column) ==
    LET line == StrippedLine(t, lineno)
        col == AdjustedColumn(t, lineno, column)
    IN  IF col > max_prefix_len
        THEN Ellipsis \o From(line, col - max_prefix_len)
        ELSE line

\* an arrow column that does not count the three dots
ArrowColumn_NoEllipsis(t, lineno, column) ==
    LET col == AdjustedColumn(t, lineno, column)
    IN  IF col > max_prefix_len THEN max_prefix_len ELSE col

ArrowColumn(t, lineno, column) ==
    LET col == AdjustedColumn(t, lineno, column)
    IN  IF col > max_prefix_len THEN max_prefix_len + 3 ELSE col

\* code = visible_line[:column] + arrow + visible_line[column:]
PreviewCode(t, lineno, column) ==
    LET visible_line == VisibleLine(t, lineno, column)
        col == ArrowColumn(t, lineno, column)
    IN  Upto(visible_line, col) \o <<Arrow>> \o From(visible_line, col)

\* one entry of options: ['{}  {}'.format(lineno + 1, message), code]
PanelOption(t, f) ==
    [label |-> <<f[1] + 1, f[3]>>, code |-> PreviewCode(t, f[1], f[2])]

\* options with one entry for equal findings
PanelOptions_Dedup(t, es) ==
    LET fs == SortedFindings(es)
        idx == SelectSeq([i \in 1..Len(fs) |-> i],
                         LAMBDA i : i = 1 \/ fs[i] # fs[i - 1])
    IN  [k \in 1..Len(idx) |-> PanelOption(t, fs[idx[k]])]

\* options after run
PanelOptions(t, es) ==
    LET fs == SortedFindings(es)
    IN  [i \in 1..Len(fs) |-> PanelOption(t, fs[i])]

\* ------------------------------------------------------ reachable inputs
SeqsUpTo(S, n) == UNION {[1..k -> S] : k \in 0..n}

\* the marks of one severity: ascending by start, pairwise non-overlapping
IsMarkList(m) ==
    \A i \in 1..(Len(m) - 1) : end(m[i]) <= begin(m[i + 1]) /\ m[i] # m[i + 1]

MarkLists == {m \in SeqsUpTo(Regions, MaxMarks) : IsMarkList(m)}

\* the buffer the findings and the marks are in: MaxLine + 1 lines of LineLen
\* characters, line l indented by l spaces as far as it has room
BufferLine(l) ==
    [k \in 1..LineLen |-> IF k = LineLen THEN "\n"
                          ELSE IF k <= l THEN " " ELSE ToString(k - 1)]

Buffer == [n \in 1..(MaxLine + 1) |-> BufferLine(n - 1)]

\* a selection of the host: what add_all leaves of the ranges added. The
\* commands read the first range, the last range and whether there is just
\* one: selections of no, one and two ranges show all of it.
Selections == {s \in SeqsUpTo(Regions, 2) : add_all(<<>>, s) = s}

\* what a lint pass publishes: the findings, and one mark for each finding,
\* which starts at the finding's position
Diagnostics ==
    [line : 0..MaxLine, column : 0..MaxCol, message : 0..MaxMsg,
     severity : {"warning", "error"}, length : 0..MaxLen]

MarkOf(d) ==
    Region(text_point(d.line, d.column), text_point(d.line, d.column) + d.length)

MarksOf(ds, severity) ==
    LET idx == SelectSeq([i \in 1..Len(ds) |-> i],
                         LAMBDA i : ds[i].severity = severity)
    IN  SortByBegin([k \in 1..Len(idx) |-> MarkOf(ds[idx[k]])])

Snapshot(ds) ==
    [errors |-> [i \in 1..Len(ds) |-> <<ds[i].line, ds[i].column, ds[i].message>>],
     marksW |-> MarksOf(ds, "warning"),
     marksE |-> MarksOf(ds, "error")]

LintSnapshots ==
    {sn \in {Snapshot(ds) : ds \in SeqsUpTo(Diagnostics, MaxDiagnostics)} :
        IsMarkList(sn.marksW) /\ IsMarkList(sn.marksE)}

NoCommand ==
    [op |-> "none", dir |-> "none", pre |-> <<>>, start |-> <<>>,
     outcome |-> "none",
     how |-> "none", point |-> 0, es |-> FALSE, chosen |-> None,
     mark |-> None, index |-> -1, value |-> "", old |-> "",
     wrap |-> FALSE, genF |-> 0, genM |-> 0]

\* the findings of a buffer whose listing is checked: every list of up to two
\* findings (two show every order and every duplicate)
Findings == (0..MaxLine) \X (0..MaxCol) \X (0..MaxMsg)
ErrorLists == SeqsUpTo(Findings, 2)

\* the marks of a list of findings: an empty warning mark at the position of
\* every finding
FindingMarks(es) ==
    LET P == {text_point(es[i][1], es[i][2]) : i \in 1..Len(es)}
    IN  [k \in 1..Cardinality(P) |->
            LET p == CHOOSE q \in P : Cardinality({x \in P : x < q}) = k - 1
            IN  Region(p, p)]

\* a line to preview: indent spaces, then body characters, each the numeral
\* of its index in the line, then the terminator
Terminators == {<<>>, <<"\n">>, <<"\r", "\n">>}

PreviewLine(indent, body, terminator) ==
    [k \in 1..indent |-> " "]
        \o [k \in 1..body |-> ToString(indent + k - 1)]
        \o terminator

\* no setting command is in use
NoChooser ==
    /\ settings = <<>>
    /\ setting = "none"
    /\ chooser = "closed"

\* the lists get_settings returns: one to MaxSettings items, each a name or a
\* (name, description) pair, names in their display form; the same name may
\* come twice
DisplayNames == {"None", "Fill", "Outline"}
SettingItems ==
    [tuple : {TRUE}, first : DisplayNames, second : {"description"}]
        \cup [tuple : {FALSE}, text : DisplayNames]
SettingLists == SeqsUpTo(SettingItems, MaxSettings) \ {<<>>}

\* the values choose is called with: display forms, stored forms and a name
\* that is in no list
Values == DisplayNames \cup {"none", "fill", "outline", "Other"}

\* ----------------------------------------------------------------- Init
InitCommon ==
    /\ sel \in Selections
    /\ wrap_find \in BOOLEAN
    /\ gen = 0
    /\ points = <<>>
    /\ pointsGen = 0
    /\ panel = "closed"
    /\ centered = None
    /\ options = <<>>
    /\ last = NoCommand
    /\ trail = <<>>

\* navigation from any selection over any marks the view can hold; the
\* buffer has findings
Init ==
    /\ InitCommon
    /\ NoChooser
    /\ marksW \in MarkLists
    /\ marksE \in MarkLists
    /\ Len(marksW) + Len(marksE) <= MaxMarks
    /\ errors = << <<0, 0, 0>> >>
    /\ text = Buffer

\* ------------------------------------------------ ChooseSettingCommand
\* str.lower() on the names of the model
lower(name) ==
    CASE name = "None" -> "none"
      [] name = "Fill" -> "fill"
      [] name = "Outline" -> "outline"
      [] name = "Other" -> "other"
      [] OTHER -> name

\* transform_setting: by default a lowercased copy
transform_setting(name) == lower(name)

\* s[0] if isinstance(s, (tuple, list)) else s
ItemText(s) == IF s.tuple THEN s.first ELSE s.text

\* the loop of choose: the index of the first item whose transformed text is
\* the wanted setting; index stays 0 if there is none
RECURSIVE FindIndex(_, _, _)
FindIndex(sts, wanted, i) ==
    IF i >= Len(sts) THEN 0
    ELSE IF transform_setting(ItemText(sts[i + 1])) = wanted THEN i
    ELSE FindIndex(sts, wanted, i + 1)

\* set(index): the value of the setting afterwards and how set ended
set(sts, old_setting, index) ==
    IF index = -1 THEN [setting |-> old_setting, outcome |-> "cancelled"]
    ELSE IF index >= Len(sts) THEN [setting |-> old_setting, outcome |-> "IndexError"]
    ELSE LET new == transform_setting(ItemText(sts[index + 1]))
         IN  IF new = old_setting
             THEN [setting |-> old_setting, outcome |-> "unchanged"]
             ELSE [setting |-> new, outcome |-> "set"]

\* -------------------------------------------------------------- actions
\* ChooseSettingCommand.choose called with a 'value' argument
ChooseValue(value) ==
    /\ chooser = "closed"
    /\ \E index \in {FindIndex(settings, transform_setting(value), 0)} :
       \E r \in {set(settings, setting, index)} :
            /\ setting' = r.setting
            /\ last' = [NoCommand EXCEPT !.op = "choose_value", !.value = value,
                                         !.old = setting, !.index = index,
                                         !.outcome = r.outcome]
    /\ UNCHANGED <<settings, chooser>>
    /\ UNCHANGED viewVars

\* ChooseSettingCommand.choose called without 'value': the quick panel is
\* shown with the current value selected
ChooseShow ==
    /\ chooser = "closed"
    /\ chooser' = "open"
    /\ last' = [NoCommand EXCEPT !.op = "choose_show", !.old = setting,
                                 !.index = FindIndex(settings,
                                                     transform_setting(setting), 0),
                                 !.outcome = "shown"]
    /\ UNCHANGED <<settings, setting>>
    /\ UNCHANGED viewVars

\* ChooseSettingCommand.set called back by the quick panel
SetFromPanel(index) ==
    /\ chooser = "open"
    /\ chooser' = "closed"
    /\ \E r \in {set(settings, setting, index)} :
            /\ setting' = r.setting
            /\ last' = [NoCommand EXCEPT !.op = "set", !.old = setting,
                                         !.index = index, !.outcome = r.outcome]
    /\ UNCHANGED settings
    /\ UNCHANGED viewVars

\* an error_command that always runs the wrapped method
HasErrors_Always(es) == TRUE

\* error_command: vid in persist.errors and persist.errors[vid]
HasErrors(es) == es # <<>>

\* SublimelinterGotoErrorCommand.run: error_command, then goto_error
GotoError(direction) ==
    /\ UNCHANGED chooserVars
    /\ panel = "closed"
    /\ Len(trail) < MaxTrail
    /\ IF HasErrors(errors)
       THEN \E r \in {goto_error(sel, marksW, marksE, wrap_find, direction)} :
            LET chained == /\ last.op = "goto" /\ last.dir = direction
                           /\ last.outcome = "selected"
            IN  /\ sel' = r.sel
                /\ centered' = IF r.outcome = "selected" THEN r.centered ELSE centered
                /\ last' = [op |-> "goto", dir |-> direction, pre |-> sel,
                            start |-> IF chained THEN last.start ELSE sel,
                            outcome |-> r.outcome, how |-> r.how,
                            point |-> r.point, es |-> r.es, chosen |-> r.chosen,
                            mark |-> r.mark, index |-> -1,
                            value |-> "", old |-> "",
                            wrap |-> wrap_find, genF |-> gen, genM |-> gen]
                /\ trail' = IF r.outcome = "selected"
                            THEN (IF chained THEN trail ELSE <<>>) \o r.sel
                            ELSE IF chained THEN trail ELSE <<>>
       ELSE /\ last' = [NoCommand EXCEPT !.op = "goto", !.dir = direction,
                                         !.pre = sel, !.start = sel,
                                         !.outcome = "NoLintErrors",
                                         !.wrap = wrap_find]
            /\ trail' = <<>>
            /\ UNCHANGED <<sel, centered>>
    /\ UNCHANGED <<marksW, marksE, errors, wrap_find, gen, points, pointsGen,
                   panel, text, options>>

\* the user changes the wrap_find setting
SetWrap ==
    /\ UNCHANGED chooserVars
    /\ panel = "closed"
    /\ wrap_find' = ~wrap_find
    /\ last' = NoCommand
    /\ trail' = <<>>
    /\ UNCHANGED <<sel, marksW, marksE, errors, gen, points, pointsGen,
                   panel, centered, text, options>>

\* SublimelinterShowAllErrors.run: error_command, then the points are built
\* and the quick panel is shown
ShowAllErrors ==
    /\ UNCHANGED chooserVars
    /\ panel = "closed"
    /\ IF HasErrors(errors)
       THEN /\ points' = PanelPoints(errors)
            /\ options' = PanelOptions(text, errors)
            /\ pointsGen' = gen
            /\ panel' = "open"
            /\ last' = [NoCommand EXCEPT !.op = "show", !.pre = sel,
                                         !.outcome = "shown",
                                         !.genF = gen, !.genM = gen]
       ELSE /\ last' = [NoCommand EXCEPT !.op = "show", !.pre = sel,
                                         !.outcome = "NoLintErrors"]
            /\ UNCHANGED <<points, pointsGen, panel, options>>
    /\ trail' = <<>>
    /\ UNCHANGED <<sel, marksW, marksE, errors, wrap_find, gen, centered, text>>

\* a select_error that takes every index as a pick
Cancelled_Never(index) == FALSE

\* select_error: index != -1 is the test for a pick
Cancelled(index) == index = -1

\* self.points[index], a negative index counting from the end of the list
PointAt(pts, index) ==
    IF index >= 0 THEN pts[index + 1] ELSE pts[Len(pts) + index + 1]

\* SublimelinterShowAllErrors.select_error: the quick panel calls back with
\* the index of the chosen entry, -1 when it was cancelled
SelectError(index) ==
    /\ UNCHANGED chooserVars
    /\ panel = "open"
    /\ panel' = "closed"
    /\ IF ~Cancelled(index)
       THEN LET point == PointAt(points, index)
                marked == select_lint_region(marksW, marksE, Region(point, point))
            IN  /\ sel' = <<marked>>
                /\ centered' = marked
                /\ last' = [NoCommand EXCEPT !.op = "select", !.pre = sel,
                                             !.outcome = "selected",
                                             !.point = point, !.index = index,
                                             !.chosen = Region(point, point),
                                             !.mark = find_mark_within(marksW, marksE,
                                                        Region(point, point)),
                                             !.genF = pointsGen, !.genM = gen]
       ELSE /\ last' = [NoCommand EXCEPT !.op = "select", !.pre = sel,
                                         !.outcome = "cancelled",
                                         !.genF = gen, !.genM = gen]
            /\ UNCHANGED <<sel, centered>>
    /\ trail' = <<>>
    /\ UNCHANGED <<marksW, marksE, errors, wrap_find, gen, points, pointsGen,
                   text, options>>

\* GotoErrorCommand.find_mark_within called on a region
Locate(region) ==
    /\ UNCHANGED chooserVars
    /\ last.op = "none"
    /\ last' = [NoCommand EXCEPT !.op = "locate", !.chosen = region,
                                 !.mark = find_mark_within(marksW, marksE, region)]
    /\ UNCHANGED <<sel, marksW, marksE, errors, wrap_find, gen, points, pointsGen,
                   panel, centered, text, options, trail>>

\* a lint pass publishes the findings and the marks of the next generation
\* in one step
LintPass ==
    /\ UNCHANGED chooserVars
    /\ gen < MaxGen
    /\ gen' = gen + 1
    /\ \E sn \in LintSnapshots :
        /\ errors' = sn.errors
        /\ marksW' = sn.marksW
        /\ marksE' = sn.marksE
    /\ last' = NoCommand
    /\ trail' = <<>>
    /\ UNCHANGED <<sel, wrap_find, points, pointsGen, panel, centered, text,
                   options>>


Next ==
    \/ GotoError("next")
    \/ GotoError("previous")
    \/ SetWrap

Spec == Init /\ [][Next]_vars

\* one navigation call from every selection, over every mark list and with
\* either wrap setting (every state a sequence of commands reaches has its
\* selection, marks and setting among the initial ones)
FirstCommand == last.op = "none"

GotoOnce(direction) ==
    /\ FirstCommand
    /\ GotoError(direction)

NextCall ==
    \/ GotoOnce("next")
    \/ GotoOnce("previous")

SpecCall == Init /\ [][NextCall]_vars

\* the commands while lint passes replace the findings and the marks
InitGen ==
    /\ InitCommon
    /\ NoChooser
    /\ sel = <<Region(0, 0)>>
    /\ wrap_find = TRUE
    /\ text = Buffer
    /\ \E sn \in LintSnapshots :
        /\ errors = sn.errors
        /\ marksW = sn.marksW
        /\ marksE = sn.marksE

NextGen ==
    \/ GotoError("next")
    \/ GotoError("previous")
    \/ ShowAllErrors
    \/ \E index \in -1..(Len(points) - 1) : SelectError(index)
    \/ LintPass

SpecGen == InitGen /\ [][NextGen]_vars

\* the listing of every list of findings, empty and with duplicates, picking
\* from it, and navigation as the first command
InitList ==
    /\ InitCommon
    /\ NoChooser
    /\ sel = <<Region(0, 0)>>
    /\ wrap_find = TRUE
    /\ text = Buffer
    /\ errors \in ErrorLists
    /\ marksW = FindingMarks(errors)
    /\ marksE = <<>>

NextList ==
    \/ GotoOnce("next")
    \/ GotoOnce("previous")
    \/ ShowAllErrors
    \/ \E index \in -1..(Len(points) - 1) : SelectError(index)

SpecList == InitList /\ [][NextList]_vars

\* the listing of one finding on the only line of a buffer, for every
\* indentation, length and terminator of the line and every column up to
\* MaxOver past its end
InitPreview ==
    /\ InitCommon
    /\ NoChooser
    /\ sel = <<Region(0, 0)>>
    /\ wrap_find = TRUE
    /\ \E indent \in 0..MaxIndent, body \in 0..MaxBody, terminator \in Terminators :
        /\ text = <<PreviewLine(indent, body, terminator)>>
        /\ \E column \in 0..(indent + body + MaxOver) :
                errors = << <<0, column, 0>> >>
    /\ marksW = FindingMarks(errors)
    /\ marksE = <<>>

NextPreview == ShowAllErrors

SpecPreview == InitPreview /\ [][NextPreview]_vars

\* picking from the list of one or two findings at different positions, over
\* every mark list and from a selection of two ranges
PickErrors ==
    {es \in SeqsUpTo((0..MaxLine) \X (0..MaxCol) \X {0}, 2) :
        /\ Len(es) >= 1
        /\ \A i \in 1..(Len(es) - 1) : FindingBefore(es[i], es[i + 1])}

InitPick ==
    /\ InitCommon
    /\ NoChooser
    /\ sel = <<Region(0, 0), Region(1, MaxPos)>>
    /\ wrap_find = TRUE
    /\ text = Buffer
    /\ errors \in PickErrors
    /\ marksW \in MarkLists
    /\ marksE \in MarkLists
    /\ Len(marksW) + Len(marksE) <= MaxMarks

ShowFirst ==
    /\ FirstCommand
    /\ ShowAllErrors

NextPick ==
    \/ ShowFirst
    \/ \E index \in -1..(Len(points) - 1) : SelectError(index)

SpecPick == InitPick /\ [][NextPick]_vars

\* the setting commands: choose with every value and without one, over every
\* list of settings and from every stored value
InitChoose ==
    /\ InitCommon
    /\ sel = <<Region(0, 0)>>
    /\ wrap_find = TRUE
    /\ text = Buffer
    /\ errors = <<>>
    /\ marksW = <<>>
    /\ marksE = <<>>
    /\ settings \in SettingLists
    /\ setting \in {"none", "fill", "outline"}
    /\ chooser = "closed"

ChooseOnce(value) ==
    /\ FirstCommand
    /\ ChooseValue(value)

NextChoose ==
    \/ \E value \in Values : ChooseOnce(value)
    \/ ChooseShow
    \/ \E index \in -1..(Len(settings) - 1) : SetFromPanel(index)

SpecChoose == InitChoose /\ [][NextChoose]_vars

\* find_mark_within on every region, over every mark list of one mark more
\* than navigation is checked with
InitLocate ==
    /\ InitCommon
    /\ NoChooser
    /\ sel = <<Region(0, 0)>>
    /\ wrap_find = TRUE
    /\ text = Buffer
    /\ errors = << <<0, 0, 0>> >>
    /\ marksW \in MarkLists
    /\ marksE \in MarkLists
    /\ Len(marksW) + Len(marksE) <= MaxMarks + 1

NextLocate == \E region \in Regions : Locate(region)

SpecLocate == InitLocate /\ [][NextLocate]_vars

\* ------------------------------------------------------------ properties
AllMarks == marksW \o marksE

\* the mark intervals are pairwise non-overlapping (they may touch, and may
\* be empty)
NonOverlapping ==
    \A i, j \in 1..Len(AllMarks) :
        i # j => \/ end(AllMarks[i]) <= begin(AllMarks[j])
                 \/ end(AllMarks[j]) <= begin(AllMarks[i])

Chain(direction) == last.op = "goto" /\ last.dir = direction

\* C1: over pairwise non-overlapping marks, from any starting selection,
\* consecutive forward navigation calls with wrap disabled select intervals
\* in strictly increasing start order (so that, the buffer being finite,
\* NoMoreDiagnostics is reported after finitely many calls).
C1_ForwardStrictlyIncreasing ==
    (Chain("next") /\ ~wrap_find /\ NonOverlapping) =>
        \A i \in 1..(Len(trail) - 1) : begin(trail[i]) < begin(trail[i + 1])

\* the selection is one zero-width range before every mark
CursorBeforeAll(s) ==
    /\ Len(s) = 1 /\ empty(s[1])
    /\ \A i \in 1..Len(AllMarks) : begin(s[1]) < begin(AllMarks[i])

\* C2: with wrap enabled, N >= 2 pairwise non-overlapping marks and a
\* starting cursor before all of them, the k-th consecutive forward call selects the k-th mark in ascending
\* start order for k = 1..N, and call N+1 selects the first mark again.
C2_WrapVisitsEachOnce ==
    (/\ Chain("next") /\ wrap_find /\ NonOverlapping
     /\ Len(AllMarks) >= 2 /\ CursorBeforeAll(last.start)) =>
        LET N == Len(AllMarks)
            ascending == SortedMarks(marksW, marksE)
        IN  /\ last.outcome = "selected"
            /\ \A k \in 1..Len(trail) :
                  k <= N + 1 => trail[k] = ascending[((k - 1) % N) + 1]

\* what the claims call the selection a call starts from, its reference
\* points and its being a zero-width cursor (an empty selection counts as
\* the cursor at offset 0 the command puts there)
StartSel(pre) == IF pre = <<>> THEN <<Region(0, 0)>> ELSE pre
ForwardPoint(pre) == begin(StartSel(pre)[1])
BackwardPoint(pre) == end(StartSel(pre)[Len(StartSel(pre))])
IsCursor(pre) == Len(StartSel(pre)) = 1 /\ empty(StartSel(pre)[1])

\* goto_error ran (the buffer has findings) in the given direction
Ran(direction) ==
    last.op = "goto" /\ last.dir = direction /\ last.outcome # "NoLintErrors"

\* the intervals navigation scans
Intervals == MergedRegions(marksW, marksE)

\* C3 as stated: with exactly one mark and the reference point inside it, a
\* forward call reports NoMoreDiagnostics and does not select the mark.
C3_Original ==
    (Ran("next") /\ Len(AllMarks) = 1 /\ Len(last.pre) >= 1
        /\ begin(AllMarks[1]) <= ForwardPoint(last.pre)
        /\ ForwardPoint(last.pre) <= end(AllMarks[1])) =>
            last.outcome = "NoMoreDiagnostics"

\* C3 amended: with exactly one mark and the reference point inside it, a
\* forward call reports NoMoreDiagnostics and leaves the selection alone,
\* except when the selection is a zero-width cursor at the start of a
\* non-empty mark: then the call selects the mark.
C3_SoleMarkInside ==
    (Ran("next") /\ Len(AllMarks) = 1
        /\ begin(AllMarks[1]) <= ForwardPoint(last.pre)
        /\ ForwardPoint(last.pre) <= end(AllMarks[1])) =>
            IF /\ IsCursor(last.pre)
               /\ ForwardPoint(last.pre) = begin(AllMarks[1])
               /\ ~empty(AllMarks[1])
            THEN last.outcome = "selected" /\ sel = <<AllMarks[1]>>
            ELSE last.outcome = "NoMoreDiagnostics" /\ sel = StartSel(last.pre)

\* C3 witness: wrap enabled, the reference point inside the sole mark and
\* past its start, and the forward call reported NoMoreDiagnostics
C3_Witness ==
    /\ Ran("next") /\ Len(AllMarks) = 1 /\ wrap_find
    /\ begin(AllMarks[1]) < ForwardPoint(last.pre)
    /\ ForwardPoint(last.pre) <= end(AllMarks[1])
    /\ last.outcome = "NoMoreDiagnostics"

\* C4 as stated: when navigation reports NoMoreDiagnostics the selection is
\* exactly the selection before the call.
C4_Original ==
    (last.op = "goto" /\ last.outcome = "NoMoreDiagnostics") => sel = last.pre

\* C4 amended: when navigation reports NoMoreDiagnostics the selection is
\* exactly the selection before the call if that had at least one range; if
\* it had none, the selection is the single zero-width range at offset 0.
C4_SelectionRestored ==
    (last.op = "goto" /\ last.outcome = "NoMoreDiagnostics") =>
        sel = IF last.pre = <<>> THEN <<Region(0, 0)>> ELSE last.pre

\* C4 witness: a call over two marks reported NoMoreDiagnostics and put
\* back a selection of two ranges
C4_Witness ==
    /\ last.op = "goto" /\ last.outcome = "NoMoreDiagnostics"
    /\ Len(last.pre) = 2 /\ Len(AllMarks) = 2 /\ sel = last.pre

\* the interval the wrap rule looks at and wraps to: the first one going
\* forward, the last one going backward
WrapInterval(direction) ==
    IF direction = "next" THEN Intervals[1] ELSE Intervals[Len(Intervals)]

ClaimPoint(direction, pre) ==
    IF direction = "next" THEN ForwardPoint(pre) ELSE BackwardPoint(pre)

\* C6: when the directional search matches no interval, navigation wraps
\* (to the first interval forward, the last backward) if and only if wrap is
\* enabled and either more than one interval exists or the reference point
\* is not contained in that interval; in every other no-match case it
\* reports NoMoreDiagnostics.
C6_WrapRule ==
    \A d \in {"next", "previous"} :
        (Ran(d) /\ last.how # "match") =>
            IF /\ last.wrap
               /\ \/ Len(Intervals) > 1
                  \/ (Len(Intervals) = 1 /\
                        ~containsPoint(WrapInterval(d), ClaimPoint(d, last.pre)))
            THEN /\ last.outcome = "selected"
                 /\ last.chosen = WrapInterval(d)
            ELSE last.outcome = "NoMoreDiagnostics"

\* C6, for the calls that scan at least one interval: the wrap rule itself
\* holds; the call over an empty mark list is what breaks C6
C6_WrapRuleNonEmpty == Len(Intervals) >= 1 => C6_WrapRule

\* C7: forward search takes the start of the first selection range as the
\* reference point and chooses the first interval I, ascending by start,
\* with (point = I.start, the selection a single zero-width range and I not
\* empty) or point < I.start; it matches nothing exactly when no interval
\* satisfies that.
C7_Pred(i, pre) ==
    \/ /\ ForwardPoint(pre) = begin(Intervals[i])
       /\ IsCursor(pre)
       /\ ~empty(Intervals[i])
    \/ ForwardPoint(pre) < begin(Intervals[i])

C7_ForwardSearch ==
    Ran("next") =>
        IF \E i \in 1..Len(Intervals) : C7_Pred(i, last.pre)
        THEN /\ last.how = "match"
             /\ \E i \in 1..Len(Intervals) :
                   /\ C7_Pred(i, last.pre)
                   /\ \A j \in 1..(i - 1) : ~C7_Pred(j, last.pre)
                   /\ last.chosen = Intervals[i]
        ELSE last.how # "match"

\* C7 witness: a forward match that skipped an earlier interval, from a
\* selection of two ranges
C7_Witness ==
    /\ Ran("next") /\ last.how = "match"
    /\ Len(last.pre) = 2 /\ Len(Intervals) = 2
    /\ last.chosen = Intervals[2]

\* C7, the tie-break reached: a cursor at the start of a non-empty interval
C7_WitnessTie ==
    /\ Ran("next") /\ last.how = "match" /\ IsCursor(last.pre)
    /\ ForwardPoint(last.pre) = begin(last.chosen)

\* C8: backward search takes the end of the last selection range as the
\* reference point and chooses the first interval I, scanning the ascending
\* list in reverse, with (point = I.end, the selection a single zero-width
\* range and I not empty) or point > I.end.
C8_Pred(i, pre) ==
    \/ /\ BackwardPoint(pre) = end(Intervals[i])
       /\ IsCursor(pre)
       /\ ~empty(Intervals[i])
    \/ BackwardPoint(pre) > end(Intervals[i])

C8_BackwardSearch ==
    Ran("previous") =>
        IF \E i \in 1..Len(Intervals) : C8_Pred(i, last.pre)
        THEN /\ last.how = "match"
             /\ \E i \in 1..Len(Intervals) :
                   /\ C8_Pred(i, last.pre)
                   /\ \A j \in (i + 1)..Len(Intervals) : ~C8_Pred(j, last.pre)
                   /\ last.chosen = Intervals[i]
        ELSE last.how # "match"

\* C8 witness: a backward match that skipped the later interval, from a
\* selection of two ranges whose last range decides the reference point
C8_Witness ==
    /\ Ran("previous") /\ last.how = "match"
    /\ Len(last.pre) = 2 /\ Len(Intervals) = 2
    /\ last.chosen = Intervals[1]
    /\ begin(last.pre[1]) < end(last.pre[2])

\* C9: over pairwise non-overlapping marks, consecutive backward navigation
\* calls with wrap disabled select intervals in strictly decreasing order:
\* each selected interval ends no later than the previously selected one
\* starts, and is another interval.
C9_BackwardStrictlyDecreasing ==
    (Chain("previous") /\ ~wrap_find /\ NonOverlapping) =>
        \A i \in 1..(Len(trail) - 1) :
            /\ end(trail[i + 1]) <= begin(trail[i])
            /\ trail[i + 1] # trail[i]

\* C10: find_mark_within returns a mark that contains the region and that no
\* containing mark precedes in ascending start order, for the marks of both
\* severities; it returns none exactly when no mark contains the region.
C10_FirstContainingMark ==
    \A R \in Regions :
        LET M == find_mark_within(marksW, marksE, R)
            containing == {i \in 1..Len(AllMarks) :
                              /\ begin(AllMarks[i]) <= begin(R)
                              /\ end(R) <= end(AllMarks[i])}
        IN  IF containing = {} THEN M = None
            ELSE /\ \E i \in containing : M = AllMarks[i]
                 /\ \A i \in containing : begin(M) <= begin(AllMarks[i])

\* C10 witness: navigation selected what find_mark_within returned for its
\* target: the earlier of two marks that contain the target, the later
\* being listed first by get_regions
C10_Witness ==
    /\ last.op = "goto" /\ last.outcome = "selected"
    /\ Len(marksW) = 1 /\ Len(marksE) = 1
    /\ contains(marksW[1], last.chosen) /\ contains(marksE[1], last.chosen)
    /\ begin(marksE[1]) < begin(marksW[1])
    /\ sel = <<marksE[1]>>

\* C5: every command observes one complete generation: the findings, or the
\* target points computed from findings, that it uses are of the same
\* generation as the marks it reads.
C5_OneGeneration == last.genF = last.genM

\* the region spans two different marks that are disjoint and not empty
SpansTwoDisjointMarks(region) ==
    \E i, j \in 1..Len(AllMarks) :
        /\ i # j
        /\ ~empty(AllMarks[i]) /\ ~empty(AllMarks[j])
        /\ end(AllMarks[i]) <= begin(AllMarks[j])
        /\ begin(region) <= begin(AllMarks[i])
        /\ end(AllMarks[j]) <= end(region)

\* C11 as stated: for every mark list of the data model (no overlap within a
\* severity, overlap across severities allowed), find_mark_within on a region
\* that spans two disjoint marks returns none.
C11_Original ==
    (last.op = "locate" /\ SpansTwoDisjointMarks(last.chosen))
        => last.mark = None

\* C11: over marks that are pairwise non-overlapping across both severities,
\* find_mark_within on a region that spans two disjoint non-empty marks
\* returns none.
C11_SpanningReturnsNone ==
    (last.op = "locate" /\ NonOverlapping /\ SpansTwoDisjointMarks(last.chosen))
        => last.mark = None

C11_Witness ==
    /\ last.op = "locate" /\ NonOverlapping
    /\ SpansTwoDisjointMarks(last.chosen)
    /\ last.mark = None

Shown == last.op = "show" /\ last.outcome = "shown"

Perms(n) == {p \in [1..n -> 1..n] : \A i, j \in 1..n : p[i] = p[j] => i = j}
Reordered(es, p) == [i \in 1..Len(es) |-> es[p[i]]]

\* f is at or before g by line, then column, then message
LexLeq(f, g) ==
    \/ f[1] < g[1]
    \/ (f[1] = g[1] /\ f[2] < g[2])
    \/ (f[1] = g[1] /\ f[2] = g[2] /\ f[3] <= g[3])

\* C13: the entries shown are those of the findings in ascending order of
\* line and, within a line, of (column, message); and the listing of every
\* reordering of the same findings is the same list.
C13_OrderedAnyInputOrder ==
    Shown =>
        /\ \E p \in Perms(Len(errors)) :
              LET fs == Reordered(errors, p)
              IN  /\ \A i, j \in 1..Len(fs) : i < j => LexLeq(fs[i], fs[j])
                  /\ options = [i \in 1..Len(fs) |-> PanelOption(text, fs[i])]
        /\ \A p \in Perms(Len(errors)) :
              PanelOptions(text, Reordered(errors, p)) = options

C13_Witness ==
    /\ Shown
    /\ Len(errors) = 2
    /\ errors[1][1] = errors[2][1] /\ errors[1][2] = errors[2][2]
    /\ errors[1][3] > errors[2][3]
    /\ options = <<PanelOption(text, errors[2]), PanelOption(text, errors[1])>>

\* the findings in the order of their entries
Displayed == SortedFindings(errors)

Count(seq, x) == Cardinality({i \in 1..Len(seq) : seq[i] = x})

\* C14 as stated: no two entries of the list shown are for the same
\* (line, column, message).
C14_Original ==
    Shown =>
        \A i, j \in 1..Len(options) : i # j => Displayed[i] # Displayed[j]

\* C14: the list shown has one entry for every finding of the buffer, equal
\* findings included: a (line, column, message) has as many entries as the
\* findings have occurrences of it.
C14_OneEntryPerFinding ==
    Shown =>
        /\ Len(options) = Len(errors)
        /\ \A f \in Findings :
              Count([i \in 1..Len(options) |-> options[i]], PanelOption(text, f))
                  >= Count(errors, f)

C14_Witness ==
    /\ Shown
    /\ Len(errors) = 2 /\ errors[1] = errors[2]
    /\ Len(options) = 2 /\ options[1] = options[2]

\* the offset of (lineno, column) in the text: the lengths of the lines
\* before it, then the column
RECURSIVE LineStart(_, _)
LineStart(t, lineno) ==
    IF lineno = 0 THEN 0 ELSE LineStart(t, lineno - 1) + Len(t[lineno])

\* C17: while the panel is open, the target points are as many as the
\* entries, and the i-th is the offset of the line and column of the i-th
\* finding in display order as the finding gives them, whatever the preview
\* stripped or cut; also when the list has been shown before.
C17_TargetsMatchEntries ==
    panel = "open" =>
        /\ Len(points) = Len(options)
        /\ \E p \in Perms(Len(errors)) :
              LET fs == Reordered(errors, p)
              IN  /\ options = [i \in 1..Len(fs) |-> PanelOption(text, fs[i])]
                  /\ points = [i \in 1..Len(fs) |->
                                  LineStart(text, fs[i][1]) + fs[i][2]]

\* shown after a command that moved the selection, with a finding behind the
\* indentation of its line
C17_Witness ==
    /\ Shown /\ panel = "open"
    /\ centered # None /\ last.pre = <<centered>>
    /\ Len(points) = 2 /\ Len(options) = 2
    /\ \E i \in 1..2 :
          /\ StripDiff(text, Displayed[i][1]) > 0 /\ Displayed[i][2] > 0
          /\ points[i] = LineStart(text, Displayed[i][1]) + Displayed[i][2]

\* C19: when the buffer has no findings, the navigation command and the
\* listing command do nothing but report it: goto_error and the listing are
\* not run, the selection stays as it was, nothing is centered and no list
\* is shown.
C19_NoFindingsNoEffect ==
    (errors = <<>> /\ last.op \in {"goto", "show"}) =>
        /\ last.outcome = "NoLintErrors"
        /\ sel = last.pre
        /\ centered = None
        /\ panel = "closed" /\ options = <<>> /\ points = <<>>

C19_Witness ==
    /\ errors = <<>> /\ last.op = "show"
    /\ last.outcome = "NoLintErrors"
    /\ sel = <<Region(0, 0)>> /\ panel = "closed"

C19_WitnessGoto ==
    /\ errors = <<>> /\ last.op = "goto"
    /\ last.outcome = "NoLintErrors"
    /\ sel = <<Region(0, 0)>>

\* the reference construction of the preview of the finding errors[1]:
\* the line without its trailing terminators, the number D of its leading
\* whitespace characters, the line without them, the adjusted column, the
\* base and the display column
RefLine == text[errors[1][1] + 1]
RefNoTerm ==
    LET n == CHOOSE k \in 0..Len(RefLine) :
                /\ \A i \in (k + 1)..Len(RefLine) : RefLine[i] \in {"\n", "\r"}
                /\ (k > 0 => RefLine[k] \notin {"\n", "\r"})
    IN  SubSeq(RefLine, 1, n)
RefD ==
    CHOOSE k \in 0..Len(RefNoTerm) :
        /\ \A i \in 1..k : RefNoTerm[i] \in Whitespace
        /\ (k < Len(RefNoTerm) => RefNoTerm[k + 1] \notin Whitespace)
RefStripped == SubSeq(RefNoTerm, RefD + 1, Len(RefNoTerm))
RefAdjusted == IF errors[1][2] - RefD > 0 THEN errors[1][2] - RefD ELSE 0
RefBase ==
    IF RefAdjusted > 40
    THEN <<".", ".", ".">> \o SubSeq(RefStripped, RefAdjusted - 40 + 1, Len(RefStripped))
    ELSE RefStripped
RefDisplay == IF RefAdjusted > 40 THEN 43 ELSE RefAdjusted

\* the base with the arrow put in before offset k
ArrowAt(base, k) == SubSeq(base, 1, k) \o <<Arrow>> \o SubSeq(base, k + 1, Len(base))

\* the offset of the arrow in a preview
ArrowOffset(code) == (CHOOSE k \in 1..Len(code) : code[k] = Arrow) - 1

\* the list of the one finding was shown
ShownOne == Shown /\ Len(errors) = 1 /\ Len(options) = 1

\* C15 as stated: the preview is the base with the arrow inserted before
\* offset display_column, an offset of the base or its length.
C15_Original ==
    ShownOne =>
        /\ RefDisplay <= Len(RefBase)
        /\ options[1].code = ArrowAt(RefBase, RefDisplay)

\* C15: the preview is the base of the reference construction with exactly
\* one arrow, inserted before offset display_column when the base is that
\* long, and at the end of the base when display_column is at or past its
\* length.
C15_ReferencePreview ==
    ShownOne =>
        /\ options[1].code =
              ArrowAt(RefBase, IF RefDisplay <= Len(RefBase) THEN RefDisplay
                               ELSE Len(RefBase))
        /\ Cardinality({k \in 1..Len(options[1].code) :
                            options[1].code[k] = Arrow}) = 1

\* a cut line with indentation and a terminator, the column inside the line
C15_Witness ==
    /\ ShownOne
    /\ RefD > 0 /\ Len(RefNoTerm) < Len(RefLine)
    /\ RefAdjusted > 40 /\ RefAdjusted < Len(RefStripped)
    /\ options[1].code = ArrowAt(RefBase, 43)

\* a column past the end of the line: the arrow is at the end
C15_WitnessPastEnd ==
    /\ ShownOne
    /\ RefDisplay > Len(RefBase)
    /\ options[1].code = RefBase \o <<Arrow>>

\* C16 as stated: at most 43 characters precede the arrow, and whenever
\* adjusted_column > 40 the preview starts with the three dots and the arrow
\* is at offset 43, for every line and every column.
C16_Original ==
    ShownOne =>
        /\ ArrowOffset(options[1].code) <= 43
        /\ RefAdjusted > 40 =>
              /\ SubSeq(options[1].code, 1, 3) = <<".", ".", ".">>
              /\ ArrowOffset(options[1].code) = 43

\* C16: at most 43 characters precede the arrow; whenever adjusted_column >
\* 40 the preview starts with the three dots, and the arrow is at offset 43
\* if the adjusted column is at most the length of the stripped line; if it
\* is past it, the arrow is the last character, at an offset below 43.
C16_ArrowOffset ==
    ShownOne =>
        /\ ArrowOffset(options[1].code) <= 43
        /\ RefAdjusted > 40 =>
              /\ SubSeq(options[1].code, 1, 3) = <<".", ".", ".">>
              /\ IF RefAdjusted <= Len(RefStripped)
                 THEN ArrowOffset(options[1].code) = 43
                 ELSE /\ ArrowOffset(options[1].code) = Len(options[1].code) - 1
                      /\ ArrowOffset(options[1].code) < 43

\* a cut line, the column at its last character
C16_Witness ==
    /\ ShownOne
    /\ RefAdjusted > 40 /\ RefAdjusted = Len(RefStripped) - 1
    /\ SubSeq(options[1].code, 1, 3) = <<".", ".", ".">>
    /\ ArrowOffset(options[1].code) = 43
    /\ Len(options[1].code) = 45

\* an entry of the panel was picked by the last command
Picked == last.op = "select" /\ last.outcome = "selected"

MarksContaining(p) ==
    {k \in 1..Len(AllMarks) : begin(AllMarks[k]) <= p /\ p <= end(AllMarks[k])}

\* C18: picking entry i leaves as the whole selection one range: a mark that
\* contains the target point of entry i and starts no later than any other
\* mark containing it, or the zero-width range at the target point when no
\* mark contains it.
C18_PickSelectsFirstMark ==
    Picked =>
        LET p == points[last.index + 1]
        IN  /\ Len(sel) = 1
            /\ IF MarksContaining(p) = {} THEN sel[1] = Region(p, p)
               ELSE \E k \in MarksContaining(p) :
                        /\ sel[1] = AllMarks[k]
                        /\ \A j \in MarksContaining(p) :
                              begin(AllMarks[k]) <= begin(AllMarks[j])

\* the second entry picked, two marks with different starts containing its
\* target point, the selection of two ranges replaced by the first of them
C18_Witness ==
    /\ Picked /\ last.index = 1
    /\ Len(last.pre) = 2
    /\ \E j, k \in MarksContaining(points[2]) :
          /\ begin(AllMarks[j]) < begin(AllMarks[k])
          /\ sel = <<AllMarks[j]>>

\* no mark contains the target point
C18_WitnessNoMark ==
    /\ Picked
    /\ MarksContaining(points[last.index + 1]) = {}
    /\ AllMarks # <<>>
    /\ sel = <<Region(last.point, last.point)>>

\* C20: a navigation call that reports success changes the selection: over
\* every mark list of the data model (overlap and nesting across severities,
\* touching and empty intervals included) and from every selection, the
\* selection after a successful call differs from the selection before it.
C20_SuccessChangesSelection ==
    (last.op = "goto" /\ last.outcome = "selected") => sel # last.pre

\* C21: whenever the buffer has findings, goto_error ends in exactly one of
\* two ways, for every mark list, the empty one included: it makes a new
\* selection of one range, or it reports that there are no more errors and
\* leaves the selection it was called with (the cursor at 0 for a selection
\* of no ranges); it fails in no other way.
C21_TwoOutcomes ==
    \A d \in {"next", "previous"} :
        Ran(d) =>
            \/ last.outcome = "selected" /\ Len(sel) = 1
            \/ last.outcome = "NoMoreDiagnostics" /\ sel = StartSel(last.pre)

\* the column of the finding errors[1] is inside the line, at or after its
\* first character that is not whitespace
ColumnInLine == RefD <= errors[1][2] /\ errors[1][2] < Len(RefNoTerm)

\* the character after the arrow of a preview
AfterArrow(code) == code[ArrowOffset(code) + 2]

\* C22: for every line and every finding whose column is at least the number
\* D of leading whitespace characters and less than the length of the line
\* without its terminator, the character right after the arrow in the
\* preview is the character of the line at the finding's column, whether the
\* preview is cut or not.
C22_ColumnExact ==
    (ShownOne /\ ColumnInLine) =>
        /\ ArrowOffset(options[1].code) + 2 <= Len(options[1].code)
        /\ AfterArrow(options[1].code) = RefLine[errors[1][2] + 1]

\* a cut preview of an indented line
C22_Witness ==
    /\ ShownOne /\ ColumnInLine
    /\ RefD > 0 /\ RefAdjusted > 40
    /\ SubSeq(options[1].code, 1, 3) = <<".", ".", ".">>
    /\ AfterArrow(options[1].code) = ToString(errors[1][2])

\* a preview that is not cut, of an indented line
C22_WitnessWhole ==
    /\ ShownOne /\ ColumnInLine
    /\ RefD > 0 /\ RefAdjusted > 0 /\ RefAdjusted <= 40
    /\ AfterArrow(options[1].code) = ToString(errors[1][2])

\* C23: when the quick panel calls select_error with -1 (cancelled), the
\* selection and the region the view is centered on stay as they were.
C23_CancelChangesNothing ==
    [][(panel = "open" /\ last'.op = "select" /\ last'.index = -1)
          => (sel' = sel /\ centered' = centered)]_vars

\* cancelled after a navigation call moved the selection and the view
C23_Witness ==
    /\ last.op = "select" /\ last.outcome = "cancelled"
    /\ centered # None /\ sel = <<centered>>
    /\ sel # <<Region(0, 0)>>
    /\ last.pre = sel /\ panel = "closed"

\* the items whose transformed name is the transformed value
Matching(value) ==
    {i \in 1..Len(settings) :
        transform_setting(ItemText(settings[i])) = transform_setting(value)}

\* C24: choose called with a 'value' sets the setting to the item of the
\* list that corresponds to the value: the setting stored afterwards is the
\* transformed name of the item whose transformed name equals the
\* transformed value, and with a value that matches no item no other item is
\* stored: the setting stays what it was.
C24_ValueSetsMatchingItem ==
    last.op = "choose_value" =>
        IF Matching(last.value) # {}
        THEN setting = transform_setting(last.value)
        ELSE setting = last.old
====
